---- MODULE Spec2Model ----
(***************************************************************************)
(* Model of TrajectoryImageGenerator (src/TrajectoryImageGenerator.py):    *)
(* a frame-index list is split over the render views, one daemon thread    *)
(* per view renders, saves and counts its frames; cleanup() closes the     *)
(* progress bar and the views and tries to stop the threads; make_movie()  *)
(* hands the frame files to the encoder.                                   *)
(***************************************************************************)
EXTENDS Integers, Sequences, FiniteSets, TLC

VARIABLES
    traj,          \* self.traj: the positions of each trajectory frame, and how its reader keeps them
    smoothing_window, \* self.smoothing_window
    indices,       \* self.indices: the frame index list L
    views,         \* self.views: one record per NGLView widget
    progress_bar,  \* self.progress_bar: None or the tqdm bar
    threads,       \* self.threads: one record per started thread
    files,         \* the image folder: file name -> image stored in it
    video,         \* the video file written by the encoder, if any
    ret,           \* outcome of the public call that returned last (constructor included)
    call           \* where the caller is: in no call, or at a statement of one

vars == <<traj, smoothing_window, indices, views, progress_bar, threads, files, video, ret, call>>

----------------------------------------------------------------------------
(* Bounds of the model *)

MaxLen == 2        \* longest frame index list of the threaded specifications
MaxFrame == 1      \* largest frame index of the threaded specifications
MaxViews == 2      \* largest num_views of the threaded specifications
MaxThreads == 2    \* run() is not invoked again once it would start more threads than this
MaxSplitLen == 5   \* longest frame index list of the partition specification
MaxSplitViews == 4 \* largest num_views of the partition specification
MaxT == 5          \* most frames of a trajectory of the smoothing specification
MaxWindow == 7     \* largest smoothing_window of the smoothing specification

----------------------------------------------------------------------------
(* Values *)

None == [none |-> TRUE]

\* An image payload: the frame it shows and the thread whose render_image()
\* call produced it.  NoImage is the empty value of a fresh Image widget.
NoImage == [frame |-> -1, by |-> 0]

Image(f, t) == [frame |-> f, by |-> t]

\* The output of make_movie: no video file yet, or the video file written
\* from an ordered list of frame files.
NoVideo == [written |-> FALSE, frames |-> <<>>]

VideoFile(sequence) == [written |-> TRUE, frames |-> sequence]

\* A file that was in the image folder before the generator was constructed.
StaleImage == [frame |-> -1, by |-> -1]

RECURSIVE SeqsUpTo(_, _)
\* All sequences over S of length at most n.
SeqsUpTo(S, n) ==
    IF n = 0 THEN {<<>>}
    ELSE LET shorter == SeqsUpTo(S, n - 1)
         IN shorter \cup {Append(s, x) : s \in {q \in shorter : Len(q) = n - 1}, x \in S}

----------------------------------------------------------------------------
(* File names: f'frame_{i:06d}.png' under image_folder *)

RECURSIVE Digits(_)
\* The decimal digits of a natural number, most significant first.
Digits(n) == IF n < 10 THEN <<n>> ELSE Append(Digits(n \div 10), n % 10)

RECURSIVE ZeroPad(_, _)
\* The format width: zeros are added on the left up to the width, a longer
\* number is left as it is.
ZeroPad(ds, width) == IF Len(ds) >= width THEN ds ELSE ZeroPad(<<0>> \o ds, width)

PadWidth == 6

\* A file name made from half the frame index, as for a stride of two.
img_path_Halved(i) == [folder |-> "image_folder", stem |-> "frame_", num |-> ZeroPad(Digits(i \div 2), PadWidth), ext |-> ".png"]

\* os.path.join(self.image_folder, f'frame_{i:06d}.png')
img_path(i) == [folder |-> "image_folder", stem |-> "frame_", num |-> ZeroPad(Digits(i), PadWidth), ext |-> ".png"]

----------------------------------------------------------------------------
(* numpy.array_split(self.indices, len(self.views)) and .tolist() *)

RECURSIVE cumsum(_)
\* Running sums of a sequence of numbers.
cumsum(s) ==
    IF Len(s) = 0 THEN <<>>
    ELSE LET front == cumsum(SubSeq(s, 1, Len(s) - 1))
         IN Append(front, (IF Len(front) = 0 THEN 0 ELSE front[Len(front)]) + s[Len(s)])

\* section_sizes with the extra elements given to the last sections instead
\* of the first ones.
section_sizes_ExtrasLast(Ntotal, Nsections) ==
    LET Neach_section == Ntotal \div Nsections
        extras == Ntotal % Nsections
    IN <<0>> \o [k \in 1..Nsections |-> IF k > Nsections - extras THEN Neach_section + 1 ELSE Neach_section]

\* section_sizes = [0] + extras * [Neach_section + 1] + (Nsections - extras) * [Neach_section]
section_sizes(Ntotal, Nsections) ==
    LET Neach_section == Ntotal \div Nsections
        extras == Ntotal % Nsections
    IN <<0>> \o [k \in 1..Nsections |-> IF k <= extras THEN Neach_section + 1 ELSE Neach_section]

\* array_split without the check of the section count: no section, no error.
array_split_NoCheck(ary, Nsections) ==
    IF Nsections <= 0
    THEN [raised |-> "none", value |-> <<>>]
    ELSE LET div_points == cumsum(section_sizes(Len(ary), Nsections))
         IN [raised |-> "none",
             value |-> [k \in 1..Nsections |-> SubSeq(ary, div_points[k] + 1, div_points[k + 1])]]

\* The split of ary in Nsections sub-lists, or the ValueError of a section
\* count that is not positive.
array_split(ary, Nsections) ==
    IF Nsections <= 0
    THEN [raised |-> "ValueError", value |-> <<>>]
    ELSE LET div_points == cumsum(section_sizes(Len(ary), Nsections))
         IN [raised |-> "none",
             value |-> [k \in 1..Nsections |-> SubSeq(ary, div_points[k] + 1, div_points[k + 1])]]

----------------------------------------------------------------------------
(* The progress bar: tqdm.notebook.tqdm(total=len(self.indices)) *)

\* A fresh bar: n counts the updates, disable is set by close(); id tells the
\* bar objects of successive run() calls apart.
tqdm(total, id) == [n |-> 0, total |-> total, disable |-> FALSE, id |-> id]

\* bool(bar): a bar with a total is true when the total is positive.
tqdm_bool(bar) == bar # None /\ bar.total > 0

\* An update that counts the frame twice.
tqdm_update_Twice(bar, n_read) == [bar EXCEPT !.n = n_read + 2]

\* The store of "self.n += n" in bar.update(1): the value of n that was read,
\* plus 1.  The read and the store are separate moments and tqdm takes no lock.
tqdm_update(bar, n_read) == [bar EXCEPT !.n = n_read + 1]

\* bar.close()
tqdm_close(bar) == [bar EXCEPT !.disable = TRUE]

----------------------------------------------------------------------------
(* Threads *)

\* Every thread is given the first view.
Thread_FirstView(v, subset_indices, ident) ==
    [view |-> 1, subset |-> subset_indices, pos |-> 0, pc |-> "for", img |-> NoImage,
     im_data |-> NoImage, bar |-> 0, n |-> 0, saved |-> <<>>, ident |-> ident, exc |-> FALSE]

\* A thread that run() has joined: it is handed back at the end of its bucket.
Thread_Joined(v, subset_indices, ident) ==
    [view |-> v, subset |-> subset_indices, pos |-> Len(subset_indices), pc |-> "done", img |-> NoImage,
     im_data |-> NoImage, bar |-> 0, n |-> 0, saved |-> <<>>, ident |-> ident, exc |-> FALSE]

\* threading.Thread(target=self.generate_images, args=(view, subset_indices)),
\* started: v is the position of the view in self.views, ident the thread
\* identifier.  pc is the thread's place in generate_images, img the value of
\* the Image widget it polls, im_data the payload it has read, bar and n the
\* bar and the count it has read inside update(1), exc a SystemExit set on it
\* and not yet delivered.
Thread(v, subset_indices, ident) ==
    [view |-> v, subset |-> subset_indices, pos |-> 0, pc |-> "for", img |-> NoImage,
     im_data |-> NoImage, bar |-> 0, n |-> 0, saved |-> <<>>, ident |-> ident, exc |-> FALSE]

\* An imsave call of a thread: the frame index that names the file and the
\* image stored in it.  A thread's saved field lists its calls in order.
Saved(i, image) == [frame |-> i, image |-> image]

\* thread.is_alive(): the thread is somewhere inside generate_images.
Alive(thread) == thread.pc \in {"for", "render", "poll", "save", "update", "read", "add"}

\* The identifiers a new thread can get: one never used, or that of a thread
\* that has ended, but none that a living thread holds.
FreeIdents(ths) ==
    ({Len(ths) + 1} \cup {ths[s].ident : s \in DOMAIN ths})
        \ {ths[s].ident : s \in {r \in DOMAIN ths : Alive(ths[r])}}

\* The loop variable of a loop that walks the bucket from its end.
Current_Reversed(thread) == thread.subset[Len(thread.subset) - thread.pos]

\* The frame index the thread is working on.
Current(thread) == thread.subset[thread.pos + 1]

\* nv.show_mdanalysis(self.traj): a view shows frame 0 and has rendered nothing.
View == [frame |-> 0, image_data |-> NoImage, closed |-> FALSE]

\* The outcome of the public call that returned last.
Ret(op, raised) == [op |-> op, raised |-> raised]

\* The caller (the notebook's main thread) is in no public call.
Idle == [op |-> "idle", k |-> 0, split |-> <<>>]

\* The caller is inside the public call op, at its statement or loop pass k;
\* split holds the local list a call has computed.
Inside(op, k, split) == [op |-> op, k |-> k, split |-> split]

----------------------------------------------------------------------------
(* Forced stop *)

\* _async_raise(thread.ident, SystemExit): PyThreadState_SetAsyncExc sets the
\* exception on every thread state with this identifier and answers their
\* number.  0 (no living thread has the identifier) is reported as ValueError;
\* 1 sets the exception on that thread, which gets it when it next runs; any
\* other number is reverted and reported as SystemError.  The identifier of a
\* thread that has ended may belong to another living thread by now.
_async_raise(tid, ths) ==
    LET hit == {t \in DOMAIN ths : Alive(ths[t]) /\ ths[t].ident = tid}
        res == Cardinality(hit)
    IN IF res = 0 THEN [raised |-> "ValueError", threads |-> ths]
       ELSE IF res # 1 THEN [raised |-> "SystemError", threads |-> ths]
       ELSE [raised |-> "none",
             threads |-> [t \in DOMAIN ths |-> IF t \in hit THEN [ths[t] EXCEPT !.exc = TRUE] ELSE ths[t]]]

\* _stop_thread as a method that reaches its body with the thread it is given.
_stop_thread_Bound(args, ths) == _async_raise(args[Len(args)].ident, ths)

\* _stop_thread is a staticmethod declared with the parameters (self, thread):
\* a call that does not pass exactly two arguments raises TypeError before
\* the body runs.
_stop_thread(args, ths) ==
    IF Len(args) # 2 THEN [raised |-> "TypeError", threads |-> ths]
    ELSE _async_raise(args[2].ident, ths)

----------------------------------------------------------------------------
(* The image folder and the encoder *)

\* mpimg.imsave(img_path, image): creates or overwrites the file.
imsave(folder, path, image) ==
    [p \in DOMAIN folder \cup {path} |-> IF p = path THEN image ELSE folder[p]]

\* image_files = [os.path.join(self.image_folder, f'frame_{i:06d}.png') for i in self.indices]
image_files(L) == [k \in 1..Len(L) |-> img_path(L[k])]

\* ImageSequenceClip(image_files, fps=fps): looks at sequence[0], then reads
\* every listed file to compare the image sizes.
ImageSequenceClip(sequence, folder) ==
    IF Len(sequence) = 0 THEN "IndexError"
    ELSE IF \E k \in 1..Len(sequence) : sequence[k] \notin DOMAIN folder THEN "FileNotFoundError"
    ELSE "none"

----------------------------------------------------------------------------
(* Construction *)

\* Positions are exact fractions num/den in lowest terms, den > 0.
RECURSIVE gcd(_, _)
gcd(a, b) == IF b = 0 THEN a ELSE gcd(b, a % b)

Rat(n, d) == LET g == gcd(n, d) IN [num |-> n \div g, den |-> d \div g]

RECURSIVE np_sum(_)
np_sum(xs) ==
    IF xs = <<>> THEN Rat(0, 1)
    ELSE LET x == Head(xs)
             r == np_sum(Tail(xs))
         IN Rat(x.num * r.den + r.num * x.den, x.den * r.den)

\* np.mean over the frame axis of a slice.
np_mean(xs) == LET total == np_sum(xs) IN Rat(total.num, total.den * Len(xs))

max(a, b) == IF a >= b THEN a ELSE b

min(a, b) == IF a <= b THEN a ELSE b

\* xs[start:end] along the frame axis, for 0 <= start <= end <= len(xs).
slice(xs, start, end) == SubSeq(xs, start + 1, end)

\* get_smooth_positions: smoothed_positions is a new array; frame i of it is
\* the mean of timeseries()[:, start:end, :] over the frame axis.
get_smooth_positions(timeseries, w) ==
    LET T == Len(timeseries)
    IN [k \in 1..T |->
           LET i == k - 1
               start == max(0, i - w \div 2)
               end == min(T, i + w \div 2 + 1)
           IN np_mean(slice(timeseries, start, end))]

\* A trajectory: the positions of its frames, in the layout lines 143 and 150
\* index (frames along the second axis of timeseries()), and whether its
\* reader keeps the frames in memory or reads each one from a file.
Universe(positions, in_memory) == [positions |-> positions, in_memory |-> in_memory]

\* smooth_trajectory: the smoothed positions are computed first, then
\* "for i, ts in enumerate(self.traj.trajectory): ts.positions = ..." assigns
\* to the timestep the reader hands out on each pass. A reader that keeps the
\* frames in memory hands out the frame itself, and the frame changes; a
\* reader that reads from a file hands out a fresh timestep on each pass, and
\* what was assigned is gone when the next frame is read.
smooth_trajectory(u, w) ==
    LET smoothed_positions == get_smooth_positions(u.positions, w)
    IN IF u.in_memory
       THEN [u EXCEPT !.positions = [k \in 1..Len(u.positions) |-> smoothed_positions[k]]]
       ELSE u

\* The trajectory of the threaded specifications: frame i at position i, and
\* a smoothing_window of 1, which leaves it as it is.
Unsmoothed == Universe([i \in 1..(MaxFrame + 1) |-> Rat(i - 1, 1)], TRUE)

\* Files that may be in the image folder before construction
\* (os.makedirs(..., exist_ok=True) keeps them).
StaleNames == {img_path(0), img_path(MaxFrame + 1)}

\* The folder is new, or holds files of an earlier session.
StaleSets == {{}, StaleNames}

StaleFolder(S) == [p \in S |-> StaleImage]

\* __init__ with the given indices and num_views: no view count is refused,
\* create_views() appends num_views views.
Construct(L, num_views, stale) ==
    /\ traj = Unsmoothed
    /\ smoothing_window = 1
    /\ indices = L
    /\ views = [k \in 1..num_views |-> View]
    /\ progress_bar = None
    /\ threads = <<>>
    /\ files = StaleFolder(stale)
    /\ video = NoVideo
    /\ ret = [op |-> "__init__", raised |-> "none"]
    /\ call = Idle

Init ==
    \E L \in SeqsUpTo(0..MaxFrame, MaxLen), num_views \in 0..MaxViews, stale \in StaleSets :
        Construct(L, num_views, stale)

----------------------------------------------------------------------------
(* Public operations, statement by statement: the threads run between the
   statements of a call *)

\* run() is called.
run_enter ==
    /\ call = Idle
    /\ threads = <<>> \/ Len(threads) + Len(views) <= MaxThreads
    /\ call' = Inside("run", 0, <<>>)
    /\ UNCHANGED <<traj, smoothing_window, indices, views, progress_bar, threads, files, video, ret>>

\* The split and the new progress bar; the ValueError of the split ends the
\* call before the bar is made.
run_split ==
    /\ call.op = "run"
    /\ call.k = 0
    /\ LET indices_split == array_split(indices, Len(views))
       IN IF indices_split.raised # "none"
          THEN /\ ret' = Ret("run", indices_split.raised)
               /\ call' = Idle
               /\ UNCHANGED progress_bar
          ELSE /\ progress_bar' = tqdm(Len(indices), IF progress_bar = None THEN 1 ELSE progress_bar.id + 1)
               /\ call' = Inside("run", 1, indices_split.value)
               /\ UNCHANGED ret
    /\ UNCHANGED <<traj, smoothing_window, indices, views, threads, files, video>>

\* One pass of "for view, subset_indices in zip(self.views, indices_split)":
\* the thread is created, appended and started.
run_start ==
    /\ call.op = "run"
    /\ 1 <= call.k
    /\ call.k <= min(Len(views), Len(call.split))
    /\ \E ident \in FreeIdents(threads) :
          threads' = Append(threads, Thread(call.k, call.split[call.k], ident))
    /\ call' = [call EXCEPT !.k = @ + 1]
    /\ UNCHANGED <<traj, smoothing_window, indices, views, progress_bar, files, video, ret>>

\* The loop is exhausted: run() returns.
run_return ==
    /\ call.op = "run"
    /\ call.k > min(Len(views), Len(call.split))
    /\ call' = Idle
    /\ ret' = Ret("run", "none")
    /\ UNCHANGED <<traj, smoothing_window, indices, views, progress_bar, threads, files, video>>

\* A statement of cleanup(): what is called, and on which view or thread.
Step(do, on) == [do |-> do, on |-> on]

\* The statements cleanup() executes, in program order: the bar (if it is
\* true), the views, the threads.
cleanup_steps(bar, vs, ths) ==
    (IF tqdm_bool(bar) THEN <<Step("progress_bar.close", 0)>> ELSE <<>>)
       \o [k \in 1..Len(vs) |-> Step("view.close", k)]
       \o [t \in 1..Len(ths) |-> Step("_stop_thread", t)]

\* The statement the caller is at inside cleanup().
Statement ==
    LET steps == cleanup_steps(progress_bar, views, threads)
    IN IF call.op = "cleanup" /\ call.k \in 1..Len(steps) THEN steps[call.k] ELSE Step("return", 0)

\* cleanup() is called.
cleanup_enter ==
    /\ call = Idle
    /\ call' = Inside("cleanup", 1, <<>>)
    /\ UNCHANGED <<traj, smoothing_window, indices, views, progress_bar, threads, files, video, ret>>

\* self.progress_bar.close()
cleanup_bar ==
    /\ Statement.do = "progress_bar.close"
    /\ progress_bar' = tqdm_close(progress_bar)
    /\ call' = [call EXCEPT !.k = @ + 1]
    /\ UNCHANGED <<traj, smoothing_window, indices, views, threads, files, video, ret>>

\* A pass that closes the view only when a thread uses it.
cleanup_close_UsedViews ==
    /\ Statement.do = "view.close"
    /\ views' = IF \E t \in DOMAIN threads : threads[t].view = Statement.on
                THEN [views EXCEPT ![Statement.on].closed = TRUE] ELSE views
    /\ call' = [call EXCEPT !.k = @ + 1]
    /\ UNCHANGED <<traj, smoothing_window, indices, progress_bar, threads, files, video, ret>>

\* One pass of "for view in self.views: view.close()".
cleanup_close ==
    /\ Statement.do = "view.close"
    /\ views' = [views EXCEPT ![Statement.on].closed = TRUE]
    /\ call' = [call EXCEPT !.k = @ + 1]
    /\ UNCHANGED <<traj, smoothing_window, indices, progress_bar, threads, files, video, ret>>

\* One pass of "for thread in self.threads: try: self._stop_thread(thread)
\*                                          except TypeError: continue":
\* an exception other than TypeError ends the call and reaches the caller.
cleanup_stop ==
    /\ Statement.do = "_stop_thread"
    /\ LET outcome == _stop_thread(<<threads[Statement.on]>>, threads)
       IN IF outcome.raised \in {"TypeError", "none"}
          THEN /\ threads' = outcome.threads
               /\ call' = [call EXCEPT !.k = @ + 1]
               /\ UNCHANGED ret
          ELSE /\ call' = Idle
               /\ ret' = Ret("cleanup", outcome.raised)
               /\ UNCHANGED threads
    /\ UNCHANGED <<traj, smoothing_window, indices, views, progress_bar, files, video>>

\* No statement is left: cleanup() returns.
cleanup_return ==
    /\ call.op = "cleanup"
    /\ Statement.do = "return"
    /\ call' = Idle
    /\ ret' = Ret("cleanup", "none")
    /\ UNCHANGED <<traj, smoothing_window, indices, views, progress_bar, threads, files, video>>

RECURSIVE Value(_)
\* int(text) of a run of digits.
Value(ds) == IF Len(ds) = 0 THEN 0 ELSE 10 * Value(SubSeq(ds, 1, Len(ds) - 1)) + ds[Len(ds)]

RECURSIVE sorted_alphanumeric(_)
\* sorted_alphanumeric over a set of frame file names: ascending frame numbers.
sorted_alphanumeric(S) ==
    IF S = {} THEN <<>>
    ELSE LET first == CHOOSE p \in S : \A q \in S : Value(p.num) <= Value(q.num)
         IN <<first>> \o sorted_alphanumeric(S \ {first})

\* The indices of L whose frame file is not in the folder.
Absent(L, folder) == SelectSeq(L, LAMBDA i : img_path(i) \notin DOMAIN folder)

\* make_movie(output_file) is called. Nothing is read or written yet; the
\* caller's position keeps on record which frame files are absent at this
\* moment (no action reads the record: it serves to state C6).
make_movie_enter ==
    /\ call = Idle
    /\ call' = Inside("make_movie", 1, Absent(indices, files))
    /\ UNCHANGED <<traj, smoothing_window, indices, views, progress_bar, threads, files, video, ret>>

\* make_movie over the sorted listing of the image folder instead of the
\* list made from self.indices.
make_movie_FromListing ==
    /\ call.op = "make_movie"
    /\ LET sequence == sorted_alphanumeric(DOMAIN files)
           raised == ImageSequenceClip(sequence, files)
       IN /\ video' = IF raised = "none" THEN VideoFile(sequence) ELSE video
          /\ ret' = Ret("make_movie", raised)
    /\ call' = Idle
    /\ UNCHANGED <<traj, smoothing_window, indices, views, progress_bar, threads, files>>

\* The body of make_movie: the clip is built from the list made from
\* self.indices; write_videofile runs only when the clip was built.
make_movie ==
    /\ call.op = "make_movie"
    /\ LET sequence == image_files(indices)
           raised == ImageSequenceClip(sequence, files)
       IN /\ video' = IF raised = "none" THEN VideoFile(sequence) ELSE video
          /\ ret' = Ret("make_movie", raised)
    /\ call' = Idle
    /\ UNCHANGED <<traj, smoothing_window, indices, views, progress_bar, threads, files>>

----------------------------------------------------------------------------
(* generate_images(view, subset_indices), run by thread t *)

\* The threads once the SystemExit set on thread t has been delivered.
Killed(t) == [threads EXCEPT ![t].pc = "killed"]

\* The head of "for i in subset_indices": with an index left,
\* get_image_from_view is entered and "view.frame = frame_index" points the
\* view at it; with none left the thread ends.
for_next(t) ==
    /\ threads[t].pc = "for"
    /\ IF threads[t].exc
       THEN /\ threads' = Killed(t)
            /\ UNCHANGED views
       ELSE IF threads[t].pos < Len(threads[t].subset)
       THEN /\ views' = [views EXCEPT ![threads[t].view].frame = Current(threads[t])]
            /\ threads' = [threads EXCEPT ![t].pc = "render"]
       ELSE /\ threads' = [threads EXCEPT ![t].pc = "done"]
            /\ UNCHANGED views
    /\ UNCHANGED <<traj, smoothing_window, indices, progress_bar, files, video, ret, call>>

\* view.render_image(frame=frame_index, ...): the view is pointed at the frame
\* once more, the render is requested from the frontend, and a fresh, empty
\* Image widget is returned.
render_image(t) ==
    /\ threads[t].pc = "render"
    /\ IF threads[t].exc
       THEN /\ threads' = Killed(t)
            /\ UNCHANGED views
       ELSE /\ views' = [views EXCEPT ![threads[t].view].frame = Current(threads[t])]
            /\ threads' = [threads EXCEPT ![t].pc = "poll", ![t].img = NoImage]
    /\ UNCHANGED <<traj, smoothing_window, indices, progress_bar, files, video, ret, call>>

\* The frontend of an open view answers the render request of thread t: the
\* view stores the payload in _image_data and sets the Image widget's value.
render_ready(t) ==
    /\ threads[t].pc = "poll"
    /\ threads[t].img = NoImage
    /\ ~views[threads[t].view].closed
    /\ LET payload == Image(Current(threads[t]), t)
       IN /\ views' = [views EXCEPT ![threads[t].view].image_data = payload]
          /\ threads' = [threads EXCEPT ![t].img = payload]
    /\ UNCHANGED <<traj, smoothing_window, indices, progress_bar, files, video, ret, call>>

\* A poll loop that does not wait for the render.
poll_exit_NoWait(t) ==
    /\ threads[t].pc = "poll"
    /\ threads' = IF threads[t].exc THEN Killed(t)
                  ELSE [threads EXCEPT ![t].pc = "save",
                                       ![t].im_data = views[threads[t].view].image_data]
    /\ UNCHANGED <<traj, smoothing_window, indices, views, progress_bar, files, video, ret, call>>

\* "while not img.value: time.sleep(0.1)" ends once the value is set; then
\* im_data = view._image_data reads what the view holds at that moment.
poll_exit(t) ==
    /\ threads[t].pc = "poll"
    /\ threads[t].exc \/ threads[t].img # NoImage
    /\ threads' = IF threads[t].exc THEN Killed(t)
                  ELSE [threads EXCEPT ![t].pc = "save",
                                       ![t].im_data = views[threads[t].view].image_data]
    /\ UNCHANGED <<traj, smoothing_window, indices, views, progress_bar, files, video, ret, call>>

\* The payload that was read is decoded and mpimg.imsave writes it under the
\* frame's file name.
save(t) ==
    /\ threads[t].pc = "save"
    /\ IF threads[t].exc
       THEN /\ threads' = Killed(t)
            /\ UNCHANGED files
       ELSE /\ files' = imsave(files, img_path(Current(threads[t])), threads[t].im_data)
            /\ threads' = [threads EXCEPT ![t].pc = "update",
                                          ![t].im_data = NoImage,
                                          ![t].saved = Append(@, Saved(Current(threads[t]), threads[t].im_data))]
    /\ UNCHANGED <<traj, smoothing_window, indices, views, progress_bar, video, ret, call>>

\* A failure that still counts the frame, as if the update were in a finally
\* clause.
save_fails_Counts(t) ==
    /\ threads[t].pc = "save"
    /\ ~threads[t].exc
    /\ threads' = [threads EXCEPT ![t].pc = "failed"]
    /\ progress_bar' = IF progress_bar.disable THEN progress_bar
                       ELSE tqdm_update(progress_bar, progress_bar.n)
    /\ UNCHANGED <<traj, smoothing_window, indices, views, files, video, ret, call>>

\* base64_to_ndarray or imsave raises (bad payload, folder not writable):
\* the exception ends the thread.
save_fails(t) ==
    /\ threads[t].pc = "save"
    /\ ~threads[t].exc
    /\ threads' = [threads EXCEPT ![t].pc = "failed"]
    /\ UNCHANGED <<traj, smoothing_window, indices, views, progress_bar, files, video, ret, call>>

\* self.progress_bar.update(1) up to the test in tqdm's update: the bar
\* self.progress_bar names now is taken and called; a closed bar returns at
\* once, an open one goes on to self.n += n.
update_test(t) ==
    /\ threads[t].pc = "update"
    /\ threads' = IF threads[t].exc THEN Killed(t)
                  ELSE IF progress_bar.disable
                  THEN [threads EXCEPT ![t].pc = "for", ![t].pos = @ + 1]
                  ELSE [threads EXCEPT ![t].pc = "read",
                                       ![t].bar = progress_bar.id]
    /\ UNCHANGED <<traj, smoothing_window, indices, views, progress_bar, files, video, ret, call>>

\* The read of self.n += n: n of the bar that was taken is read, whether or not
\* the bar was closed since the test (a bar that self.progress_bar no longer
\* names is out of sight, and so is its n).
update_read(t) ==
    /\ threads[t].pc = "read"
    /\ threads' = IF threads[t].exc THEN Killed(t)
                  ELSE [threads EXCEPT ![t].pc = "add",
                                       ![t].n = IF progress_bar.id = threads[t].bar
                                                THEN progress_bar.n ELSE 0]
    /\ UNCHANGED <<traj, smoothing_window, indices, views, progress_bar, files, video, ret, call>>

\* The store of update(1): n of the bar that was taken becomes the value read
\* plus 1 (a bar that self.progress_bar no longer names is out of sight), and
\* the thread is back at the head of its loop.
update(t) ==
    /\ threads[t].pc = "add"
    /\ IF threads[t].exc
       THEN /\ threads' = Killed(t)
            /\ UNCHANGED progress_bar
       ELSE /\ progress_bar' = IF progress_bar.id = threads[t].bar
                               THEN tqdm_update(progress_bar, threads[t].n)
                               ELSE progress_bar
            /\ threads' = [threads EXCEPT ![t].pc = "for", ![t].pos = @ + 1,
                                          ![t].bar = 0, ![t].n = 0]
    /\ UNCHANGED <<traj, smoothing_window, indices, views, files, video, ret, call>>

----------------------------------------------------------------------------
(* Specifications *)

Next ==
    \/ run_enter
    \/ run_split
    \/ run_start
    \/ run_return
    \/ cleanup_enter
    \/ cleanup_bar
    \/ cleanup_close
    \/ cleanup_stop
    \/ cleanup_return
    \/ make_movie_enter
    \/ make_movie
    \/ \E t \in DOMAIN threads : for_next(t)
    \/ \E t \in DOMAIN threads : render_image(t)
    \/ \E t \in DOMAIN threads : render_ready(t)
    \/ \E t \in DOMAIN threads : poll_exit(t)
    \/ \E t \in DOMAIN threads : save(t)
    \/ \E t \in DOMAIN threads : save_fails(t)
    \/ \E t \in DOMAIN threads : update_test(t)
    \/ \E t \in DOMAIN threads : update_read(t)
    \/ \E t \in DOMAIN threads : update(t)

Spec == Init /\ [][Next]_vars

\* The partition alone: longer lists and more views, run() and no thread step.
InitSplit ==
    \E L \in SeqsUpTo(0..MaxFrame, MaxSplitLen), num_views \in 0..MaxSplitViews :
        Construct(L, num_views, {})

NextSplit ==
    \/ run_enter
    \/ run_split
    \/ run_start
    \/ run_return

SpecSplit == InitSplit /\ [][NextSplit]_vars

\* More views than indices: the short lists of the threaded specifications
\* with the view counts of the partition specification, every operation.
InitSparse ==
    \E L \in SeqsUpTo(0..MaxFrame, MaxLen), num_views \in 0..MaxSplitViews :
        Construct(L, num_views, {})

SpecSparse == InitSparse /\ [][Next]_vars

\* One successful dispatch: run() is called once, no thread fails, cleanup()
\* is not called; the operating system schedules every thread and every
\* requested render becomes ready.
run_once == threads = <<>> /\ run_enter

NextSingleRun ==
    \/ run_once
    \/ run_split
    \/ run_start
    \/ run_return
    \/ make_movie_enter
    \/ make_movie
    \/ \E t \in DOMAIN threads : for_next(t)
    \/ \E t \in DOMAIN threads : render_image(t)
    \/ \E t \in DOMAIN threads : render_ready(t)
    \/ \E t \in DOMAIN threads : poll_exit(t)
    \/ \E t \in DOMAIN threads : save(t)
    \/ \E t \in DOMAIN threads : update_test(t)
    \/ \E t \in DOMAIN threads : update_read(t)
    \/ \E t \in DOMAIN threads : update(t)

\* The caller's thread is scheduled inside run().
FairRun == WF_vars(run_split) /\ WF_vars(run_start) /\ WF_vars(run_return)

\* Thread t is scheduled and its renders are answered.
FairThread(t) ==
    /\ WF_vars(t \in DOMAIN threads /\ for_next(t))
    /\ WF_vars(t \in DOMAIN threads /\ render_image(t))
    /\ WF_vars(t \in DOMAIN threads /\ render_ready(t))
    /\ WF_vars(t \in DOMAIN threads /\ poll_exit(t))
    /\ WF_vars(t \in DOMAIN threads /\ save(t))
    /\ WF_vars(t \in DOMAIN threads /\ update_test(t))
    /\ WF_vars(t \in DOMAIN threads /\ update_read(t))
    /\ WF_vars(t \in DOMAIN threads /\ update(t))

FairSingleRun == FairRun /\ \A t \in 1..MaxViews : FairThread(t)

SpecSingleRun == Init /\ [][NextSingleRun]_vars /\ FairSingleRun

\* One dispatch in which the first thread may fail or wait forever for a
\* render, while every other thread is scheduled and gets its renders.
IsFaulty(t) == t = 1

NextIsolation ==
    \/ run_once
    \/ run_split
    \/ run_start
    \/ run_return
    \/ \E t \in DOMAIN threads : for_next(t)
    \/ \E t \in DOMAIN threads : render_image(t)
    \/ \E t \in DOMAIN threads : render_ready(t)
    \/ \E t \in DOMAIN threads : poll_exit(t)
    \/ \E t \in DOMAIN threads : save(t)
    \/ \E t \in DOMAIN threads : IsFaulty(t) /\ save_fails(t)
    \/ \E t \in DOMAIN threads : update_test(t)
    \/ \E t \in DOMAIN threads : update_read(t)
    \/ \E t \in DOMAIN threads : update(t)

FairIsolation == FairRun /\ \A t \in 1..MaxViews : ~IsFaulty(t) => FairThread(t)

\* Lists long enough for each of two threads to get two indices.
InitIsolation ==
    \E L \in SeqsUpTo(0..MaxFrame, MaxLen + 2), num_views \in 0..MaxViews :
        Construct(L, num_views, {})

SpecIsolation == InitIsolation /\ [][NextIsolation]_vars /\ FairIsolation

\* The constructor on its own: trajectories of up to MaxT frames with
\* positions 0 or 1, in memory or read from a file, every window up to
\* MaxWindow.
RawTrajs ==
    {Universe(positions, in_memory) :
        positions \in UNION {[1..T -> {Rat(0, 1), Rat(1, 1)}] : T \in 1..MaxT},
        in_memory \in BOOLEAN}

\* The object once __init__ has assigned its fields, before it smooths.
InitSmooth ==
    /\ traj \in RawTrajs
    /\ smoothing_window \in 0..MaxWindow
    /\ indices = <<0>>
    /\ views = <<>>
    /\ progress_bar = None
    /\ threads = <<>>
    /\ files = StaleFolder({})
    /\ video = NoVideo
    /\ ret = [op |-> "new", raised |-> "none"]
    /\ call = Idle

\* The rest of __init__: smooth when smoothing_window > 1, make the folder,
\* create the views.
__init__ ==
    /\ ret.op = "new"
    /\ traj' = IF smoothing_window > 1 THEN smooth_trajectory(traj, smoothing_window) ELSE traj
    /\ \E num_views \in 0..MaxViews : views' = [k \in 1..num_views |-> View]
    /\ ret' = Ret("__init__", "none")
    /\ UNCHANGED <<smoothing_window, indices, progress_bar, threads, files, video, call>>

NextSmooth == __init__

SpecSmooth == InitSmooth /\ [][NextSmooth]_vars

----------------------------------------------------------------------------
(* Properties *)

RECURSIVE Flatten(_)
\* The concatenation of a sequence of sequences.
Flatten(ss) == IF Len(ss) = 0 THEN <<>> ELSE ss[1] \o Flatten(Tail(ss))

\* The number of dispatches that have started all their threads.
Dispatches == IF Len(views) = 0 THEN 0 ELSE Len(threads) \div Len(views)

\* At most one run() call has created a progress bar.
SingleDispatch == progress_bar = None \/ progress_bar.id = 1

\* The thread that dispatch r (counted from 0) started for view k.
Worker(r, k) == threads[r * Len(views) + k]

\* The buckets of dispatch r, in view order.
Buckets(r) == [k \in 1..Len(views) |-> Worker(r, k).subset]

\* The step is the return of the public call op, normal or by an exception.
IsReturn(op) == call.op = op /\ call'.op = "idle"

\* The step is one the caller takes inside the public call op.
IsStepOf(op) == call.op = op /\ call' # call

\* C1: for 1 <= N <= len(L), every run() makes exactly N buckets whose
\* concatenation in bucket order is L, whose sizes differ by at most 1, where
\* exactly the first len(L) mod N buckets hold the extra element, and bucket k
\* is handed to the thread bound to view k.
C1_PartitionLaw ==
    LET N == Len(views)
    IN (1 <= N /\ N <= Len(indices)) =>
          /\ call.op # "run" => Len(threads) % N = 0
          /\ (ret.op = "run" => ret.raised = "none" /\ Dispatches >= 1)
          /\ \A t \in DOMAIN threads : threads[t].view = ((t - 1) % N) + 1
          /\ \A r \in 0..(Dispatches - 1) :
                /\ Flatten(Buckets(r)) = indices
                /\ \A j, k \in 1..N : Len(Buckets(r)[j]) - Len(Buckets(r)[k]) \in {-1, 0, 1}
                /\ \A k \in 1..N :
                      Len(Buckets(r)[k]) = (Len(indices) \div N) + (IF k <= Len(indices) % N THEN 1 ELSE 0)
                /\ \A k \in 1..N : Worker(r, k).view = k

\* C1 witness: five indices were split over three views, sizes 2, 2, 1.
C1_Witness ==
    /\ Len(indices) = 5
    /\ Len(views) = 3
    /\ Len(threads) = 3
    /\ Len(threads[1].subset) = 2
    /\ Len(threads[2].subset) = 2
    /\ Len(threads[3].subset) = 1
    /\ ret.op = "run"

\* Every thread has left generate_images normally, every index of L has a
\* frame file written by a thread, and the bar counts len(L).
Finished ==
    /\ progress_bar # None
    /\ \A t \in DOMAIN threads : threads[t].pc = "done"
    /\ \A k \in 1..Len(indices) :
          /\ img_path(indices[k]) \in DOMAIN files
          /\ files[img_path(indices[k])] # StaleImage
    /\ progress_bar.n = Len(indices)

\* C2 (as claimed): after a single run() in which every render becomes ready,
\* no thread fails and cleanup() is not called, once every thread has
\* terminated a frame file exists for every index of L and the progress
\* counter equals len(L).
C2_SingleRunCompletes ==
    (ret.op = "run" /\ ret.raised = "none" /\ call = Idle
        /\ \A t \in DOMAIN threads : threads[t].pc = "done") => Finished

\* Some index of L has no frame file on disk.
FrameMissing == \E k \in 1..Len(indices) : img_path(indices[k]) \notin DOMAIN files

\* C3 (as claimed): once cleanup() has returned, and until the next public
\* call, no thread that was started is still running.
C3_CleanupInterruptsWorkers ==
    (ret.op = "cleanup" /\ call = Idle) => \A t \in DOMAIN threads : ~Alive(threads[t])

\* C4 (as claimed): no two threads that are alive at the same time are bound
\* to the same view.
C4_OneWorkerPerView ==
    \A s, t \in DOMAIN threads :
        (s # t /\ Alive(threads[s]) /\ Alive(threads[t])) => threads[s].view # threads[t].view

\* C4 (amended): the threads started by one run() call are bound to pairwise
\* distinct views, so that with at most one run() call no two threads are
\* bound to the same view.
C4_OneWorkerPerViewPerDispatch ==
    /\ \A s, t \in DOMAIN threads :
          (s # t /\ threads[s].view = threads[t].view)
             => (s - 1) \div Len(views) # (t - 1) \div Len(views)
    /\ SingleDispatch => C4_OneWorkerPerView

\* C4 witness: one run() started two threads, both are rendering.
C4_Witness ==
    /\ Len(threads) = 2
    /\ Len(views) = 2
    /\ threads[1].pc = "poll"
    /\ threads[2].pc = "poll"

\* C5 (as claimed): the progress counter is at most len(L).
C5_CounterAtMostLen == progress_bar # None => progress_bar.n <= Len(indices)

\* C5 (amended): as long as run() has been invoked at most once, the progress
\* counter is at most len(L).
C5_CounterAtMostLenSingleRun == SingleDispatch => C5_CounterAtMostLen

\* C5 witness: after one run() the counter has reached len(L) = 2.
C5_Witness ==
    /\ SingleDispatch
    /\ Len(indices) = 2
    /\ progress_bar # None
    /\ progress_bar.n = 2

\* C6 (as claimed): a make_movie() call made in a state where the frame file
\* of some index of L is absent raises an error to the caller and writes no
\* video file.
C6_MissingAtCallFails ==
    [][(IsReturn("make_movie") /\ call.split # <<>>) => (ret'.raised # "none" /\ video' = video)]_vars

\* C6, amended: a make_movie() call that reads the frame files (line 259) in a
\* state where the frame file of some index of L is absent raises an error to
\* the caller and writes no video file.
C6_MissingFrameFails ==
    [][(IsReturn("make_movie") /\ FrameMissing) => (ret'.raised # "none" /\ video' = video)]_vars

\* C6 witness: make_movie() failed on a missing file after a thread failed.
C6_Witness ==
    /\ ret.op = "make_movie"
    /\ ret.raised = "FileNotFoundError"
    /\ FrameMissing
    /\ \E t \in DOMAIN threads : threads[t].pc = "failed"
    /\ video = NoVideo

\* C7: the list of frame files turned into the video has one entry per
\* element of L, and entry k is the file frame_<L[k] in six digits>.png of the
\* image folder, whatever the threads wrote and whatever else is in the folder.
C7_MovieFollowsIndexList ==
    video.written =>
        /\ Len(video.frames) = Len(indices)
        /\ \A k \in 1..Len(indices) :
              /\ Value(video.frames[k].num) = indices[k]
              /\ Len(video.frames[k].num) = PadWidth
              /\ video.frames[k].stem = "frame_"
              /\ video.frames[k].ext = ".png"
              /\ video.frames[k].folder = "image_folder"

\* C7 witness: a video was made for L = [1, 0] by two threads, with the file
\* of a frame outside L in the folder.
C7_Witness ==
    /\ video.written
    /\ indices = <<1, 0>>
    /\ Len(threads) = 2
    /\ img_path(MaxFrame + 1) \in DOMAIN files

\* C8: the _stop_thread pass of cleanup() over a thread that has already
\* finished its bucket raises no error to the caller of cleanup() and leaves
\* the progress bar as it was.
C8_StopOfFinishedWorkerIsNoOp ==
    [][(IsStepOf("cleanup") /\ Statement.do = "_stop_thread" /\ threads[Statement.on].pc = "done")
          => (call'.op = "cleanup" /\ ret' = ret /\ progress_bar' = progress_bar /\ threads' = threads)]_vars

\* C8 witness: cleanup() returned without error with every thread finished
\* and the counter at len(L) >= 1.
C8_Witness ==
    /\ ret = Ret("cleanup", "none")
    /\ call = Idle
    /\ threads # <<>>
    /\ \A t \in DOMAIN threads : threads[t].pc = "done"
    /\ Len(indices) >= 1
    /\ progress_bar.n = Len(indices)

\* C9: a cleanup() call on an instance without progress bar and without
\* threads (run() never got to start a dispatch) raises nothing, closes every
\* view, and starts or stops no thread.
C9_CleanupBeforeRun ==
    [][(IsStepOf("cleanup") /\ progress_bar = None /\ threads = <<>>)
          => /\ threads' = <<>>
             /\ progress_bar' = None
             /\ DOMAIN views' = DOMAIN views
             /\ call'.op = "idle" =>
                   /\ ret' = Ret("cleanup", "none")
                   /\ \A k \in DOMAIN views' : views'[k].closed]_vars

\* C9 witness: cleanup() right after construction closed two views.
C9_Witness ==
    /\ ret = Ret("cleanup", "none")
    /\ call = Idle
    /\ threads = <<>>
    /\ progress_bar = None
    /\ Len(views) = 2
    /\ views[1].closed
    /\ views[2].closed

\* C10 (as claimed): num_views = 0 is refused by the constructor.
C10_ZeroViewsRefusedBySetup ==
    (Len(views) = 0 /\ ret.op = "__init__") => ret.raised # "none"

\* C10 (amended): the constructor accepts num_views = 0 and creates no view;
\* every run() then raises ValueError before it creates a progress bar or a
\* thread.
C10_ZeroViewsRefusedByRun ==
    Len(views) = 0 =>
        /\ ret.op = "__init__" => ret.raised = "none"
        /\ ret.op = "run" => ret.raised = "ValueError"
        /\ progress_bar = None
        /\ threads = <<>>

\* C10 witness: run() on an instance without views raised ValueError.
C10_Witness ==
    /\ Len(views) = 0
    /\ ret.op = "run"
    /\ ret.raised = "ValueError"

\* C11: for N > len(L), every run() makes N buckets, each element of L is in
\* exactly one of them: the first len(L) buckets are the singletons of L in
\* order, the others are empty; a thread with an empty bucket never requests
\* a render, writes a file or updates the counter, and can only end.
C11_MoreViewsThanIndices ==
    LET N == Len(views)
    IN (N > Len(indices)) =>
          /\ call.op # "run" => Len(threads) % N = 0
          /\ \A r \in 0..(Dispatches - 1) :
                /\ Flatten(Buckets(r)) = indices
                /\ \A k \in 1..N :
                      Buckets(r)[k] = IF k <= Len(indices) THEN <<indices[k]>> ELSE <<>>
          /\ \A t \in DOMAIN threads :
                threads[t].subset = <<>> =>
                    /\ threads[t].pc \in {"for", "done"}
                    /\ threads[t].pos = 0
                    /\ threads[t].img = NoImage
                    /\ threads[t].saved = <<>>
                    /\ threads[t].bar = 0

\* C11 witness: four views for two indices; the threads of the two empty
\* buckets have ended while the counter is still 0.
C11_Witness ==
    /\ Len(views) = 4
    /\ Len(indices) = 2
    /\ Len(threads) = 4
    /\ threads[1].subset = <<indices[1]>>
    /\ threads[3].pc = "done"
    /\ threads[4].pc = "done"
    /\ progress_bar.n = 0

\* C12: run() never waits for a thread or a render: whatever the threads do,
\* its next statement can be executed, and a statement of run() only makes
\* the new bar, at 0, or adds one thread, for the next view and at the head
\* of its loop, leaving the earlier threads, the views and the files as they
\* were.
C12_RunIsAsynchronous ==
    /\ [](call.op = "run" => ENABLED (run_split \/ run_start \/ run_return))
    /\ [][IsStepOf("run")
            => /\ views' = views
               /\ files' = files
               /\ progress_bar' # progress_bar => (progress_bar'.n = 0 /\ threads' = threads)
               /\ threads' # threads =>
                     /\ Len(threads') = Len(threads) + 1
                     /\ SubSeq(threads', 1, Len(threads)) = threads
                     /\ LET new == threads'[Len(threads')]
                        IN /\ new.view = call.k
                           /\ new.pc = "for"
                           /\ new.pos = 0
                           /\ new.img = NoImage]_vars

\* C12 witness: run() has returned, no render has become ready on any view,
\* a thread is polling and the counter is below len(L).
C12_Witness ==
    /\ ret = Ret("run", "none")
    /\ call = Idle
    /\ \A k \in DOMAIN views : views[k].image_data = NoImage
    /\ \E t \in DOMAIN threads : threads[t].pc = "poll" /\ threads[t].img = NoImage
    /\ progress_bar.n < Len(indices)

\* C13: a thread works through its bucket in order: the files it has written
\* are those of a prefix of its bucket, in bucket order, and while it waits
\* for the render of one position the files of all earlier positions are
\* written (with a single dispatch its view then shows that position's frame).
C13_BucketOrder ==
    \A t \in DOMAIN threads :
        LET th == threads[t]
        IN /\ Len(th.saved) = th.pos + (IF th.pc \in {"update", "read", "add"} THEN 1 ELSE 0)
           /\ Len(th.saved) <= Len(th.subset)
           /\ \A j \in 1..Len(th.saved) : th.saved[j].frame = th.subset[j]
           /\ (th.pc \in {"render", "poll", "save"} /\ SingleDispatch) => views[th.view].frame = Current(th)

\* C13 witness: a thread with the bucket [0, 1] waits for frame 1 with the
\* file of frame 0 written.
C13_Witness ==
    \E t \in DOMAIN threads :
        /\ threads[t].subset = <<0, 1>>
        /\ threads[t].pc = "poll"
        /\ Len(threads[t].saved) = 1
        /\ threads[t].saved[1].frame = 0

RECURSIVE SumOver(_, _)
\* The sum of f[t] for t in 1..n.
SumOver(f, n) == IF n = 0 THEN 0 ELSE SumOver(f, n - 1) + f[n]

\* The number of frame files written so far by all threads.
WritesCompleted == SumOver([t \in DOMAIN threads |-> Len(threads[t].saved)], Len(threads))

\* The number of loop iterations completed so far by all threads.
IterationsCompleted == SumOver([t \in DOMAIN threads |-> threads[t].pos], Len(threads))

\* C14 (as claimed): within a single dispatch no step decreases the counter,
\* and the counter is at most the number of frame writes completed so far.
C14_CounterFollowsWrites ==
    /\ [](progress_bar # None => progress_bar.n <= WritesCompleted)
    /\ [][(progress_bar # None /\ progress_bar' # None /\ progress_bar'.id = progress_bar.id)
             => progress_bar'.n >= progress_bar.n]_vars

\* C15: a thread that failed at an index takes no further step (it writes no
\* later index) and the failed index is neither written by it nor counted;
\* whatever the first thread does (fail, or wait forever for a render), every
\* other thread whose renders become ready completes its whole bucket.
C15_WorkersAreIsolated ==
    /\ [](\A t \in DOMAIN threads :
             threads[t].pc = "failed" => (Len(threads[t].saved) = threads[t].pos /\ threads[t].bar = 0))
    /\ [](progress_bar # None => progress_bar.n <= IterationsCompleted)
    /\ [][\A t \in DOMAIN threads :
             threads[t].pc = "failed" => (t \in DOMAIN threads' /\ threads'[t] = threads[t])]_vars
    /\ \A t \in 1..MaxViews :
          ~IsFaulty(t) =>
             ((t \in DOMAIN threads)
                 ~> (/\ t \in DOMAIN threads
                     /\ threads[t].pc = "done"
                     /\ Len(threads[t].saved) = Len(threads[t].subset)))

\* C15 witness: the first thread failed at its second index, the second
\* thread completed its bucket of two, and three frames are counted.
C15_Witness ==
    /\ Len(threads) = 2
    /\ threads[1].pc = "failed"
    /\ Len(threads[1].subset) = 2
    /\ Len(threads[1].saved) = 1
    /\ threads[2].pc = "done"
    /\ Len(threads[2].saved) = 2
    /\ progress_bar.n = 3

\* No progress bar is open: there is none, or it is closed.
BarClosed == progress_bar = None \/ progress_bar.disable

\* C16: cleanup() closes the progress bar (if one is open) as its first
\* statement, closes a view only once no bar is open, and calls _stop_thread
\* only once no bar is open and every view is closed; when it returns
\* normally no bar is open and every view is closed.
C16_CleanupOrder ==
    [][IsStepOf("cleanup")
          => /\ Statement.do = "progress_bar.close" => call.k = 1
             /\ Statement.do = "view.close" => BarClosed
             /\ Statement.do = "_stop_thread" => (BarClosed /\ \A k \in DOMAIN views : views[k].closed)
             /\ Statement.do = "return" => (BarClosed /\ \A k \in DOMAIN views : views[k].closed)]_vars

\* C17 (as claimed): after cleanup() has returned, and until the next public
\* call, no thread points a closed view at a frame and requests a render from
\* it, no thread leaves the poll loop of a closed view with an image, and no
\* thread changes the progress counter.
C17_NoWorkOnClosedResources ==
    [][(ret.op = "cleanup" /\ call = Idle /\ call' = Idle) =>
          /\ \A t \in DOMAIN threads :
                views[threads[t].view].closed
                   => /\ ~(threads[t].pc = "for" /\ threads'[t].pc = "render")
                      /\ ~(threads[t].pc = "render" /\ threads'[t].pc = "poll")
                      /\ ~(threads[t].pc = "poll" /\ threads'[t].pc = "save")
          /\ progress_bar # None => progress_bar'.n = progress_bar.n]_vars

\* Frame indices around the six digits of the file name, with those of the
\* model's lists.
ProbeIndices == (0..MaxFrame) \cup {9, 10, 99999, 100000, 999999, 1000000, 1000001, 9999999, 10000000}

\* L has no index twice.
NoDuplicates(L) == \A i, j \in 1..Len(L) : L[i] = L[j] => i = j

\* The files a thread has written or is about to write.
PathsOf(th) ==
    {img_path(th.subset[j]) : j \in 1..(Len(th.saved) + (IF th.pc \in {"render", "poll", "save"} THEN 1 ELSE 0))}

\* C18: the frame file name is an injective function of the frame index (the
\* number in the name reads back as the index), and with a list without
\* duplicates and a single dispatch no file is written, or about to be
\* written, by two threads.
C18_OneWriterPerPath ==
    /\ \A i, j \in ProbeIndices : img_path(i) = img_path(j) => i = j
    /\ \A i \in ProbeIndices : Value(img_path(i).num) = i
    /\ (NoDuplicates(indices) /\ SingleDispatch) =>
          \A s, t \in DOMAIN threads :
              s # t => PathsOf(threads[s]) \cap PathsOf(threads[t]) = {}

\* C18 witness: for L = [0, 1] two threads of one dispatch have each written
\* their file.
C18_Witness ==
    /\ indices = <<0, 1>>
    /\ SingleDispatch
    /\ Len(threads) = 2
    /\ Len(threads[1].saved) = 1
    /\ Len(threads[2].saved) = 1
    /\ img_path(0) \in DOMAIN files
    /\ img_path(1) \in DOMAIN files

\* Every image thread t has read or saved is the payload of the render t
\* itself requested for that index.
OwnRenders(t) ==
    /\ threads[t].pc = "save" => threads[t].im_data = Image(Current(threads[t]), t)
    /\ \A j \in 1..Len(threads[t].saved) :
          threads[t].saved[j] = Saved(threads[t].subset[j], Image(threads[t].subset[j], t))

\* C19 as stated: the image a thread writes for index i is always the payload
\* of its own render of i, never that of an earlier index or of another
\* thread's request.
C19_SavesOwnRender == \A t \in DOMAIN threads : OwnRenders(t)

\* C19, amended: with a single dispatch (each view read by one thread) the
\* image a thread writes for index i is the payload of its own render of i.
C19_SavesOwnRenderPerDispatch ==
    SingleDispatch => \A t \in DOMAIN threads : OwnRenders(t)

\* C19 witness: the one thread of a single dispatch has saved its second
\* frame, with the second render's payload and not the first's.
C19_Witness ==
    /\ SingleDispatch
    /\ Len(threads) = 1
    /\ threads[1].subset = <<0, 1>>
    /\ threads[1].saved = <<Saved(0, Image(0, 1)), Saved(1, Image(1, 1))>>
    /\ files[img_path(1)] = Image(1, 1)

RECURSIVE SumOfFrames(_, _)
\* The sum of the positions of the frames (numbered from 0) in the set S.
SumOfFrames(ts, S) ==
    IF S = {} THEN Rat(0, 1)
    ELSE LET j == CHOOSE x \in S : TRUE
             r == SumOfFrames(ts, S \ {j})
         IN Rat(ts[j + 1].num * r.den + r.num * ts[j + 1].den, ts[j + 1].den * r.den)

\* The mean of the positions of the frames in the non-empty set S.
MeanOver(ts, S) == LET total == SumOfFrames(ts, S) IN Rat(total.num, total.den * Cardinality(S))

\* frame i of the trajectory after the step is the mean of the frames S of the
\* trajectory before it, all of which exist.
Averages(i, S) ==
    /\ S \subseteq 0..(Len(traj.positions) - 1)
    /\ traj'.positions[i + 1] = MeanOver(traj.positions, S)

\* {j : max(0, i - w//2) <= j < min(T, i + w//2 + 1)}
ClippedWindow(i, T, w) ==
    {j \in 0..(T - 1) : max(0, i - w \div 2) <= j /\ j < min(T, i + w \div 2 + 1)}

\* A frame whose window is clipped at neither end.
Interior(i, T, w) == w \div 2 <= i /\ i + w \div 2 <= T - 1

\* The odd number of frames of an unclipped window.
FullWindow(w) == IF w % 2 = 1 THEN w ELSE w + 1

\* The constructor has just smoothed with a window above 1.
Smoothed == ret.op = "new" /\ ret'.op = "__init__" /\ smoothing_window > 1

\* C20: for every T and w > 1 the constructor leaves in frame i the mean of the
\* frames of its clipped window, taken from the positions before smoothing;
\* frame 0 holds the mean of frames 0..w//2 and the last frame that of frames
\* T-1-w//2..T-1 (read for trajectories of more than w//2 frames: a shorter
\* one has no such frames), an interior frame that of 2*(w//2)+1 consecutive
\* frames (w for odd w, w+1 for even w).
C20_SmoothingLaw ==
    [][Smoothed =>
          LET T == Len(traj.positions)
              w == smoothing_window
          IN /\ Len(traj'.positions) = T
             /\ \A i \in 0..(T - 1) : Averages(i, ClippedWindow(i, T, w))
             /\ T > w \div 2 =>
                   /\ Averages(0, 0..(w \div 2))
                   /\ Averages(T - 1, (T - 1 - w \div 2)..(T - 1))
             /\ \A i \in 0..(T - 1) :
                   Interior(i, T, w) =>
                      /\ Averages(i, (i - w \div 2)..(i + w \div 2))
                      /\ Cardinality((i - w \div 2)..(i + w \div 2)) = 2 * (w \div 2) + 1
                      /\ Cardinality(ClippedWindow(i, T, w)) = FullWindow(w)]_vars

====

